---------------------------- MODULE Spec2Model ----------------------------
(***************************************************************************)
(* A model of bmadx/track.py: the element records, the drift and the       *)
(* quadrupole transfer maps, the lattice driver track_a_lattice and the    *)
(* element subdivider stub_element / stub_lattice.                         *)
(*                                                                         *)
(* Arithmetic.  The program computes in binary floating point.  The model  *)
(* keeps the rounding: a number is a multiple of the quantum 2^-Frac with  *)
(* at most Prec significant bits, every operation is computed exactly and  *)
(* then rounded to nearest (ties to even), a result above MaxScaled        *)
(* overflows to an infinity, and inf / nan behave as in IEEE 754.  A       *)
(* finite number is held as its integer multiple of the quantum.           *)
(*                                                                         *)
(* Two kinds of arithmetic occur in the program.  Arithmetic on the        *)
(* fields of a Particle is arithmetic of the numeric backend (the module   *)
(* of type(p_in.x)): it never raises, a division by zero gives inf or nan. *)
(* Arithmetic on element attributes alone (L / NUM_STEPS, K1 * L, L / n)   *)
(* is arithmetic on Python numbers: division by zero raises                *)
(* ZeroDivisionError and an operand None raises TypeError.                 *)
(***************************************************************************)
EXTENDS Integers, Sequences, FiniteSets, TLC

(***************************************************************************)
(* Bounds of the model.                                                    *)
(***************************************************************************)
Frac == 4        \* fractional bits: the quantum is 2^-Frac
MaxLen == 2      \* longest lattice handed to the driver or the subdivider
MaxN == 3        \* largest subdivision count n

Prec == Frac                  \* significant bits of a number
One == 2^Frac                 \* 1.0 in quanta
MaxScaled == 2^(Frac + 8)     \* largest finite magnitude, in quanta

(***************************************************************************)
(* Numbers.                                                                *)
(***************************************************************************)
Fin(v) == [k |-> "fin", v |-> v]
NaN == [k |-> "nan", v |-> 0]
Inf(sgn) == [k |-> "inf", v |-> sgn]
None == [k |-> "none", v |-> 0]

Sgn(a) == IF a < 0 THEN -1 ELSE IF a > 0 THEN 1 ELSE 0
Mag(a) == IF a < 0 THEN -a ELSE a

RECURSIVE ExpOf(_, _, _)
ExpOf(m, d, k) == IF m < d * 2^(Prec + k) THEN k ELSE ExpOf(m, d, k + 1)

HalfEven(m, d) ==
    LET f == m \div d
        r == m % d
    IN  IF 2 * r < d THEN f
        ELSE IF 2 * r > d THEN f + 1
        ELSE IF f % 2 = 0 THEN f ELSE f + 1

\* the rational a / d (in quanta, d > 0) rounded to a number
Rnd[a \in Int, d \in Int] ==
    IF a = 0 THEN Fin(0)
    ELSE LET k == ExpOf(Mag(a), d, 0)
             m == HalfEven(Mag(a), d * 2^k) * 2^k
         IN  IF m > MaxScaled THEN Inf(Sgn(a)) ELSE Fin(Sgn(a) * m)

\* the literal a / b of the program text
Lit(a, b) == Rnd[a * One, b]

\* the numbers of the backend and of Python: finite, infinite, nan
Num == [k : {"fin", "inf", "nan"}, v : Int]

\* the only member of a one-element set: Only({e(v) : v \in {d}}) is e
\* with v bound to the value of d, computed once
Only(S) == CHOOSE r \in S : TRUE

\* the sign of a number that is not nan
SignOf(a) == IF a.k = "inf" THEN a.v ELSE Sgn(a.v)

Neg[a \in Num] == IF a.k = "nan" THEN NaN ELSE [a EXCEPT !.v = -a.v]

Add[a \in Num, b \in Num] ==
    IF a.k = "nan" \/ b.k = "nan" THEN NaN
    ELSE IF a.k = "inf" THEN (IF b.k = "inf" /\ b.v # a.v THEN NaN ELSE a)
    ELSE IF b.k = "inf" THEN b
    ELSE Rnd[a.v + b.v, 1]

Sub[a \in Num, b \in Num] == Add[a, Neg[b]]

Mul[a \in Num, b \in Num] ==
    IF a.k = "nan" \/ b.k = "nan" THEN NaN
    ELSE IF a.k = "inf" \/ b.k = "inf"
         THEN (IF SignOf(a) * SignOf(b) = 0 THEN NaN
               ELSE Inf(SignOf(a) * SignOf(b)))
    ELSE Rnd[a.v * b.v, One]

\* division of the backend: never raises
Div[a \in Num, b \in Num] ==
    IF a.k = "nan" \/ b.k = "nan" THEN NaN
    ELSE IF a.k = "inf"
         THEN (IF b.k = "inf" THEN NaN
               ELSE Inf(a.v * (IF b.v < 0 THEN -1 ELSE 1)))
    ELSE IF b.k = "inf" THEN Fin(0)
    ELSE IF b.v = 0 THEN (IF a.v = 0 THEN NaN ELSE Inf(Sgn(a.v)))
    ELSE Rnd[Sgn(b.v) * a.v * One, Mag(b.v)]

\* a ** 2
Sq[a \in Num] == Mul[a, a]

RECURSIVE Isqrt(_)
Isqrt(m) ==
    IF m < 2 THEN m
    ELSE LET r == 2 * Isqrt(m \div 4)
         IN  IF (r + 1) * (r + 1) <= m THEN r + 1 ELSE r

RECURSIVE SqrtExp(_, _)
SqrtExp(r, k) == IF r < 2^(Prec + k) THEN k ELSE SqrtExp(r, k + 1)

\* lib.sqrt: correctly rounded, nan below zero
Sqrt[a \in Num] ==
    IF a.k = "nan" THEN NaN
    ELSE IF a.k = "inf" THEN (IF a.v > 0 THEN a ELSE NaN)
    ELSE IF a.v < 0 THEN NaN
    ELSE LET m == a.v * One
             k == SqrtExp(Isqrt(m), 0)
             f == Isqrt(m) \div 2^k
             h == (2 * f + 1) * 2^k
             q == IF 4 * m > h * h THEN f + 1
                  ELSE IF 4 * m < h * h THEN f
                  ELSE IF f % 2 = 0 THEN f ELSE f + 1
         IN  Fin(q * 2^k)

\* lib.abs
Absolute[a \in Num] == IF a.k = "nan" THEN NaN ELSE [a EXCEPT !.v = Mag(a.v)]

\* a comparison's result used as a factor: True is 1, False is 0
Mask(b) == IF b THEN Fin(One) ELSE Fin(0)

\* comparisons: False when an operand is nan
Lt[a \in Num, b \in Num] ==
    /\ a.k # "nan" /\ b.k # "nan"
    /\ IF a.k = "inf" THEN a.v < 0 /\ ~(b.k = "inf" /\ b.v < 0)
       ELSE IF b.k = "inf" THEN b.v > 0
       ELSE a.v < b.v
Le[a \in Num, b \in Num] == a.k # "nan" /\ b.k # "nan" /\ ~Lt[b, a]
Gt[a \in Num, b \in Num] == Lt[b, a]
Ge[a \in Num, b \in Num] == Le[b, a]

Zero == Fin(0)
Unit == Fin(One)
Int2Num(m) == Rnd[m * One, 1]

(***************************************************************************)
(* The elementary functions of the backend other than sqrt and abs.  They  *)
(* are the backend's, not this program's: each is its Taylor polynomial    *)
(* evaluated in the model's arithmetic, good to the model's precision for  *)
(* the small arguments the model's inputs produce.                         *)
(***************************************************************************)
\* 1 + sg u2/c1 (1 + sg u2/c2 (1 + sg u2/c3))
Poly[u2 \in Num, sg \in Int, c1 \in Int, c2 \in Int, c3 \in Int] ==
    Add[Unit,
        Mul[Mul[Fin(sg * One), Div[u2, Int2Num(c1)]],
            Add[Unit,
                Mul[Mul[Fin(sg * One), Div[u2, Int2Num(c2)]],
                    Add[Unit,
                        Mul[Fin(sg * One), Div[u2, Int2Num(c3)]]]]]]]

Cos[u \in Num] ==
    IF u.k # "fin" THEN NaN ELSE Poly[Sq[u], -1, 2, 12, 30]
Sin[u \in Num] ==
    IF u.k # "fin" THEN NaN ELSE Mul[u, Poly[Sq[u], -1, 6, 20, 42]]
Cosh[u \in Num] ==
    IF u.k = "nan" THEN NaN
    ELSE IF u.k = "inf" THEN Inf(1)
    ELSE Poly[Sq[u], 1, 2, 12, 30]
Sinh[u \in Num] ==
    IF u.k # "fin" THEN u ELSE Mul[u, Poly[Sq[u], 1, 6, 20, 42]]

(***************************************************************************)
(* Named tuples for elements and particles.                                *)
(***************************************************************************)
\* Particle(x, px, y, py, z, pz, s, p0c, mc2): the positional constructor
Particle(x, px, y, py, z, pz, s, p0c, mc2) ==
    [x |-> x, px |-> px, y |-> y, py |-> py, z |-> z, pz |-> pz,
     s |-> s, p0c |-> p0c, mc2 |-> mc2]

Drift(L) == [kind |-> "Drift", L |-> L]

\* the same with a strength of zero where the program has None
QuadrupoleDefaultsZeroK1 ==
    [L |-> None, K1 |-> Fin(0), NUM_STEPS |-> 1,
     X_OFFSET |-> Fin(0), Y_OFFSET |-> Fin(0), TILT |-> Fin(0)]

\* the defaults of Quadrupole, right-aligned on its six fields
QuadrupoleDefaults ==
    [L |-> None, K1 |-> None, NUM_STEPS |-> 1,
     X_OFFSET |-> Zero, Y_OFFSET |-> Zero, TILT |-> Zero]

\* Quadrupole(L=..., K1=..., ...): given maps the field names passed to their values
Quadrupole(given) ==
    [f \in DOMAIN QuadrupoleDefaults \cup {"kind"} |->
        IF f = "kind" THEN "Quadrupole"
        ELSE IF f \in DOMAIN given THEN given[f]
        ELSE QuadrupoleDefaults[f]]

\* what a call returns: a value, or the exception it raised
Ret(v) == [ok |-> TRUE, val |-> v]
Raise(e) == [ok |-> FALSE, err |-> e]

(***************************************************************************)
(* make_track_a_drift                                                      *)
(***************************************************************************)
\* Sqrt[1+x] - 1 as x / (Sqrt[1+x] + 1)
sqrt_one[x \in Num] ==
    LET sq == Sqrt[Add[Unit, x]]
        rad == Add[sq, Unit]
    IN  Div[x, rad]

\* the same with the length left out of the transverse kick
DriftXNoLength(x, L, Px, Pl) == Add[x, Div[Px, Pl]]

\* x = x + L * Px / Pl (and the same for y)
DriftX(x, L, Px, Pl) == Add[x, Div[Mul[L, Px], Pl]]

\* s = s + L
DriftS(s, L) == Add[s, L]

\* the same with the two reference fields in each other's place
DriftOutSwapped(x, px, y, py, z, pz, s, p0c, mc2) ==
    Particle(x, px, y, py, z, pz, s, mc2, p0c)

\* return Particle(x, px, y, py, z, pz, s, p0c, mc2)
DriftOut(x, px, y, py, z, pz, s, p0c, mc2) ==
    Particle(x, px, y, py, z, pz, s, p0c, mc2)

track_a_drift(p_in, drift) ==
    LET L == drift.L
        s == p_in.s
        p0c == p_in.p0c
        mc2 == p_in.mc2
        x == p_in.x
        px == p_in.px
        y == p_in.y
        py == p_in.py
        z == p_in.z
        pz == p_in.pz
        P == Add[Unit, pz]
        Px == Div[px, P]
        Py == Div[py, P]
        Pxy2 == Add[Sq[Px], Sq[Py]]
        Pl == Sqrt[Sub[Unit, Pxy2]]
        x1 == DriftX(x, L, Px, Pl)
        y1 == DriftX(y, L, Py, Pl)
        dz == Mul[L,
                  Add[sqrt_one[Div[Mul[Sq[mc2],
                                       Add[Mul[Int2Num(2), pz], Sq[pz]]],
                                   Add[Sq[Mul[p0c, P]], Sq[mc2]]]],
                      Div[sqrt_one[Neg[Pxy2]], Pl]]]
        z1 == Add[z, dz]
        s1 == DriftS(s, L)
    IN  Ret(DriftOut(x1, px, y1, py, z1, pz, s1, p0c, mc2))

(***************************************************************************)
(* make_track_a_quadrupole                                                 *)
(***************************************************************************)
\* eps: the machine epsilon of the arithmetic, 2^-(Prec-1)
Eps == Fin(2^(Frac - Prec + 1))

\* the results of quad_mat2_calc from cx and sx
Mat2(cx, sx, k1, length, rel_p) ==
    [a11 |-> cx,
     a12 |-> Div[sx, rel_p],
     a21 |-> Mul[Mul[k1, sx], rel_p],
     a22 |-> cx,
     c1 |-> Div[Mul[k1, Add[Mul[Neg[cx], sx], length]], Int2Num(4)],
     c2 |-> Div[Mul[Neg[k1], Sq[sx]], Mul[Int2Num(2), rel_p]],
     c3 |-> Div[Neg[Add[Mul[cx, sx], length]], Mul[Int2Num(4), Sq[rel_p]]]]

quad_mat2_calc[k1 \in Num, length \in Num, rel_p \in Num] ==
    LET sqrt_k == Sqrt[Add[Absolute[k1], Eps]]
        sk_l == Mul[sqrt_k, length]
    IN  Only({ Mat2(cx, sx, k1, length, rel_p) :
                 cx \in { Add[Mul[Cos[sk_l], Mask(Le[k1, Zero])],
                              Mul[Cosh[sk_l], Mask(Gt[k1, Zero])]] },
                 sx \in { Add[Mul[Div[Sin[sk_l], sqrt_k], Mask(Le[k1, Zero])],
                              Mul[Div[Sinh[sk_l], sqrt_k],
                                  Mask(Gt[k1, Zero])]] } })

\* the two forms of dz from beta, beta0, e_tot
ZCorrection(beta, beta0, e_tot, pz, mass, ds) ==
    LET evaluation == Mul[mass, Sq[Mul[beta0, pz]]]
        me2 == Sq[Div[mass, e_tot]]
        thr == Mul[Lit(3, 10000000), e_tot]
        series == Add[Sub[Unit,
                          Div[Mul[Int2Num(3), Mul[pz, Sq[beta0]]],
                              Int2Num(2)]],
                      Mul[Mul[Sq[pz], Sq[beta0]],
                          Sub[Mul[Int2Num(2), Sq[beta0]],
                              Div[me2, Int2Num(2)]]]]
    IN  Add[Mul[Mul[Mul[Mul[ds, pz], series], me2],
                Mask(Lt[evaluation, thr])],
            Mul[Div[Mul[ds, Sub[beta, beta0]], beta0],
                Mask(Ge[evaluation, thr])]]

low_energy_z_correction[pz \in Num, p0c \in Num, mass \in Num, ds \in Num] ==
    LET rel == Add[Unit, pz]
    IN  Only({ ZCorrection(beta, beta0, e_tot, pz, mass, ds) :
                 beta \in { Div[Mul[rel, p0c],
                                Sqrt[Add[Sq[Mul[rel, p0c]], Sq[mass]]]] },
                 beta0 \in { Div[p0c, Sqrt[Add[Sq[p0c], Sq[mass]]]] },
                 e_tot \in { Sqrt[Add[Sq[p0c], Sq[mass]]] } })

offset_particle_entrance(x_offset, y_offset, tilt, x_lab, y_lab, px_lab, py_lab) ==
    LET s == Sin[tilt]
        c == Cos[tilt]
        x_ele_int == Sub[x_lab, x_offset]
        y_ele_int == Sub[y_lab, y_offset]
    IN  [x |-> Add[Mul[x_ele_int, c], Mul[y_ele_int, s]],
         y |-> Add[Mul[Neg[x_ele_int], s], Mul[y_ele_int, c]],
         px |-> Add[Mul[px_lab, c], Mul[py_lab, s]],
         py |-> Add[Mul[Neg[px_lab], s], Mul[py_lab, c]]]

offset_particle_exit(x_offset, y_offset, tilt, x_ele, y_ele, px_ele, py_ele) ==
    LET s == Sin[tilt]
        c == Cos[tilt]
        x_lab_int == Sub[Mul[x_ele, c], Mul[y_ele, s]]
        y_lab_int == Add[Mul[x_ele, s], Mul[y_ele, c]]
    IN  [x |-> Add[x_lab_int, x_offset],
         y |-> Add[y_lab_int, y_offset],
         px |-> Sub[Mul[px_ele, c], Mul[py_ele, s]],
         py |-> Add[Mul[px_ele, s], Mul[py_ele, c]]]

\* the coordinates after a pass of the loop, from the two planes' results
SliceResult(c, tx, ty, dzl) ==
    LET z1 == Add[c.z,
                  Add[Add[Add[Add[Add[Mul[tx.c1, Sq[c.x]],
                                      Mul[Mul[tx.c2, c.x], c.px]],
                                  Mul[tx.c3, Sq[c.px]]],
                              Mul[ty.c1, Sq[c.y]]],
                          Mul[Mul[ty.c2, c.y], c.py]],
                      Mul[ty.c3, Sq[c.py]]]]
    IN  [x |-> Add[Mul[tx.a11, c.x], Mul[tx.a12, c.px]],
         px |-> Add[Mul[tx.a21, c.x], Mul[tx.a22, c.px]],
         y |-> Add[Mul[ty.a11, c.y], Mul[ty.a12, c.py]],
         py |-> Add[Mul[ty.a21, c.y], Mul[ty.a22, c.py]],
         z |-> Add[z1, dzl]]

\* one pass of the body of "for i in range(n_step)"
QuadSlice(c, b1, l, step_len, pz, p0c, mc2) ==
    LET rel_p == Add[Unit, pz]
        k1 == Div[b1, Mul[l, rel_p]]
    IN  Only({ SliceResult(c, tx, ty, dzl) :
                 tx \in { quad_mat2_calc[Neg[k1], step_len, rel_p] },
                 ty \in { quad_mat2_calc[k1, step_len, rel_p] },
                 dzl \in { low_energy_z_correction[pz, p0c, mc2, step_len] } })

\* range(n_step): the number of passes of the loop
RangeLen(n_step) == IF n_step > 0 THEN n_step ELSE 0

\* the loop "for i in range(n_step)": todo passes left
RECURSIVE QuadLoop(_, _, _, _, _, _, _, _)
QuadLoop(c, todo, b1, l, step_len, pz, p0c, mc2) ==
    IF todo = 0 THEN c
    ELSE Only({ QuadLoop(c1, todo - 1, b1, l, step_len, pz, p0c, mc2) :
                  c1 \in { QuadSlice(c, b1, l, step_len, pz, p0c, mc2) } })

\* s = s + l, once, after the loop
\* the same advanced by the element's length in every slice
QuadSPerSlice(s, l, step_len, n_step) == Add[s, Mul[l, Int2Num(n_step)]]

\* s = s + l, after the loop
QuadS(s, l, step_len, n_step) == Add[s, l]

\* the particle returned, from the coordinates the loop leaves
QuadExit(c, p_in, quad, s1) ==
    LET ext == offset_particle_exit(quad.X_OFFSET, quad.Y_OFFSET, quad.TILT,
                                    c.x, c.y, c.px, c.py)
    IN  Particle(ext.x, ext.px, ext.y, ext.py, c.z, p_in.pz, s1,
                 p_in.p0c, p_in.mc2)

track_a_quadrupole(p_in, quad) ==
    LET l == quad.L
        k1 == quad.K1
        n_step == quad.NUM_STEPS
    IN  IF l = None THEN Raise("TypeError")
        ELSE IF n_step = 0 THEN Raise("ZeroDivisionError")
        ELSE IF k1 = None THEN Raise("TypeError")
        ELSE
        LET step_len == Div[l, Int2Num(n_step)]
            b1 == Mul[k1, l]
            ent == offset_particle_entrance(quad.X_OFFSET, quad.Y_OFFSET,
                                            quad.TILT,
                                            p_in.x, p_in.y, p_in.px, p_in.py)
            s1 == QuadS(p_in.s, l, step_len, n_step)
        IN  Ret(Only({ QuadExit(c, p_in, quad, s1) :
                c \in { QuadLoop([x |-> ent.x, px |-> ent.px, y |-> ent.y,
                                  py |-> ent.py, z |-> p_in.z],
                                 RangeLen(n_step), Only({b1}), l,
                                 Only({step_len}), p_in.pz, p_in.p0c,
                                 p_in.mc2) } }))

(***************************************************************************)
(* stub_element                                                            *)
(***************************************************************************)
\* the same without the division
ShortLWhole(L, n) == L

\* ele.L / n
ShortL(L, n) == Div[L, Int2Num(n)]

\* the same one copy short
RepeatShort(e, n) == [q \in 1..(n - 1) |-> e]

\* [short_ele] * n
Repeat(e, n) == [q \in 1..n |-> e]

stub_element(ele, n) ==
    LET short_L == ShortL(ele.L, n)
        short_ele == [ele EXCEPT !.L = short_L]
    IN  Repeat(short_ele, n)

(***************************************************************************)
(* The numeric backend: the module sys.modules[type(p_in.x).__module__],   *)
(* held as the set of the names it defines among those the maps bind.      *)
(***************************************************************************)
DriftNeeds == {"sqrt"}
QuadrupoleNeeds == {"sqrt", "sin", "cos", "sinh", "cosh", "sinc", "abs"}

\* make_track_a_drift(lib) / make_track_a_quadrupole(lib) bind their
\* functions when called: a missing name raises AttributeError there
MakeDriftOk(m) == DriftNeeds \subseteq m
\* the same asking only for the functions of the transfer matrix
MakeQuadrupoleLazy(m) == {"sqrt", "sin", "cos", "sinh", "cosh"} \subseteq m

MakeQuadrupoleOk(m) == QuadrupoleNeeds \subseteq m

\* tracking_function_dict
TrackingFunctionDict ==
    [kd \in {"Drift", "Quadrupole"} |->
        IF kd = "Drift" THEN "track_a_drift" ELSE "track_a_quadrupole"]

\* track_f(p, ele) for the function the dictionary holds under a name
CallMap(f, p, ele) ==
    IF f = "track_a_drift" THEN track_a_drift(p, ele)
    ELSE track_a_quadrupole(p, ele)

\* [None] * (n + 1) with entry 0 set to p_in
NoParticle == [none |-> TRUE]
NewTrajectory(p, n) == [q \in 1..(n + 1) |-> IF q = 1 THEN p ELSE NoParticle]

(***************************************************************************)
(* Inputs.                                                                 *)
(***************************************************************************)
MaxSteps == 2    \* largest NUM_STEPS of a quadrupole

\* the backends: one with every function, builtins (the module of a plain
\* Python float) and a module with neither sinc nor abs
Backends ==
    { QuadrupoleNeeds, {"abs"}, {"sqrt", "sin", "cos", "sinh", "cosh"} }

\* particles handed to the lattice driver
Particles ==
    { Particle(Lit(1, 2), Lit(1, 8), Lit(1, 4), Zero, Zero, pz, s,
               Lit(2, 1), Unit) :
        pz \in {Zero, Lit(1, 2)}, s \in {Zero, Lit(3, 2)} }

\* particles handed to a single map, unphysical ones among them
\* (pz = -1, transverse momentum above the total, p0c = mc2 = 0)
MapParticles ==
    { Particle(x, px, Lit(1, 4), py, z, pz, s, p0c, mc2) :
        x \in {Zero, Lit(1, 2)}, px \in {Zero, Lit(1, 4), Unit},
        py \in {Zero, Lit(1, 4)}, z \in {Zero, Lit(1, 2)},
        pz \in {Lit(-1, 1), Zero, Lit(1, 2)}, s \in {Zero, Lit(3, 2)},
        p0c \in {Zero, Lit(2, 1)}, mc2 \in {Zero, Unit} }

Drifts == { Drift(L) : L \in {Zero, Unit, Lit(-1, 2)} }

\* quadrupoles as their constructor builds them from the attributes given
Quadrupoles ==
    { Quadrupole([L |-> Unit]), Quadrupole([K1 |-> Unit]) }
    \cup { Quadrupole([L |-> L, K1 |-> K1, NUM_STEPS |-> ns]) :
             L \in {Unit, Lit(3, 2)}, K1 \in {Zero, Lit(1, 2)},
             ns \in -1..MaxSteps }
    \cup { Quadrupole([L |-> Unit, K1 |-> Lit(-1, 2), X_OFFSET |-> Lit(1, 4),
                       Y_OFFSET |-> Lit(1, 8), TILT |-> Lit(1, 2)]) }

MapElements == Drifts \cup Quadrupoles

\* an element of a kind the driver has no map for
Sextupole(L) == [kind |-> "Sextupole", L |-> L]

\* elements of the lattices handed to the driver and the subdivider
Elements ==
    { Drift(Unit), Drift(Lit(3, 4)), Sextupole(Unit),
      Quadrupole([L |-> Unit]),
      Quadrupole([L |-> Unit, K1 |-> Lit(1, 2)]),
      Quadrupole([L |-> Lit(3, 2), K1 |-> Lit(-1, 2), NUM_STEPS |-> 2,
                  X_OFFSET |-> Lit(1, 4), TILT |-> Lit(1, 2)]),
      Quadrupole([L |-> Unit, K1 |-> Unit, NUM_STEPS |-> 0]),
      Quadrupole([L |-> Unit, K1 |-> Unit, NUM_STEPS |-> -1]) }

Lattices == UNION { [1..k -> Elements] : k \in 0..MaxLen }

(***************************************************************************)
(* State.                                                                  *)
(*   src, n      the arguments of stub_lattice (n = 0: it is not called)   *)
(*   stubbed, si stub_lattice's list and the number of elements done       *)
(*   p_in, lattice   the arguments of track_a_lattice                      *)
(*   lib         the backend module of p_in.x                              *)
(*   dict        tracking_function_dict, empty until it is built           *)
(*   all_p, i    the driver's list and loop index                          *)
(*   applied     the lattice positions whose map has been called, in order *)
(*   pc, err     where the run is, and the exception that ended it         *)
(*   mp, me, mres, mpc   one call of a map: particle, element, result      *)
(***************************************************************************)
VARIABLES src, n, stubbed, si, p_in, lattice, lib, dict, all_p, i, applied,
          pc, err, mp, me, mres, mpc

vars == <<src, n, stubbed, si, p_in, lattice, lib, dict, all_p, i, applied,
          pc, err, mp, me, mres, mpc>>
mapVars == <<mp, me, mres, mpc>>
runVars == <<src, n, stubbed, si, p_in, lattice, lib, dict, all_p, i,
             applied, pc, err>>

NoDict == [kd \in {} |-> "none"]

MapIdle ==
    /\ mp = NoParticle /\ me = NoParticle /\ mres = NoParticle
    /\ mpc = "idle"

RunIdle ==
    /\ src = <<>> /\ n = 0 /\ stubbed = <<>> /\ si = 0
    /\ p_in = NoParticle /\ lattice = <<>> /\ lib = {} /\ dict = NoDict
    /\ all_p = <<>> /\ i = 0 /\ applied = <<>> /\ pc = "idle" /\ err = ""

\* a run: track_a_lattice(p_in, src), or
\* track_a_lattice(p_in, stub_lattice(src, n)) with n >= 1
Init ==
    /\ MapIdle
    /\ src \in Lattices
    /\ n \in 0..MaxN
    /\ p_in \in Particles
    /\ lib \in Backends
    /\ stubbed = <<>> /\ si = 0
    /\ lattice = (IF n = 0 THEN src ELSE <<>>)
    /\ pc = (IF n = 0 THEN "resolve" ELSE "stub")
    /\ dict = NoDict /\ all_p = <<>> /\ i = 0 /\ applied = <<>> /\ err = ""

\* stub_lattice: one pass of "for ele in lattice"
StubStep ==
    /\ pc = "stub" /\ si < Len(src)
    /\ stubbed' = stubbed \o stub_element(src[si + 1], n)
    /\ si' = si + 1
    /\ UNCHANGED <<src, n, p_in, lattice, lib, dict, all_p, i, applied, pc, err>>
    /\ UNCHANGED mapVars

\* stub_lattice returns; its result is handed to track_a_lattice
StubReturn ==
    /\ pc = "stub" /\ si = Len(src)
    /\ lattice' = stubbed
    /\ pc' = "resolve"
    /\ UNCHANGED <<src, n, stubbed, si, p_in, lib, dict, all_p, i, applied, err>>
    /\ UNCHANGED mapVars

\* track_a_lattice up to its loop: the maps are made, the list allocated
Resolve ==
    /\ pc = "resolve"
    /\ MakeDriftOk(lib) /\ MakeQuadrupoleOk(lib)
    /\ dict' = TrackingFunctionDict
    /\ all_p' = NewTrajectory(p_in, Len(lattice))
    /\ pc' = "track"
    /\ UNCHANGED <<src, n, stubbed, si, p_in, lattice, lib, i, applied, err>>
    /\ UNCHANGED mapVars

\* a name the maps bind is missing from lib
ResolveFail ==
    /\ pc = "resolve"
    /\ ~(MakeDriftOk(lib) /\ MakeQuadrupoleOk(lib))
    /\ pc' = "raised"
    /\ err' = "AttributeError"
    /\ UNCHANGED <<src, n, stubbed, si, p_in, lattice, lib, dict, all_p, i, applied>>
    /\ UNCHANGED mapVars

\* the position written by pass i of the driver's loop (1-based: i + 2)
StoreAt(idx) == idx + 2
\* the same reading the first entry in every pass
ReadFirst(idx) == 1

\* the position read by pass i of the driver's loop (1-based: i + 1)
ReadAt(idx) == idx + 1

\* one pass of "for i in range(n)": the map under the element's kind is
\* called on all_p[i] and its result stored in all_p[i+1], unless it raises
TrackStep ==
    /\ pc = "track" /\ i < Len(lattice)
    /\ lattice[i + 1].kind \in DOMAIN dict
    /\ \E r \in { CallMap(dict[lattice[i + 1].kind], all_p[ReadAt(i)],
                          lattice[i + 1]) } :
          IF r.ok
          THEN /\ all_p' = [all_p EXCEPT ![StoreAt(i)] = r.val]
               /\ i' = i + 1
               /\ UNCHANGED <<pc, err>>
          ELSE /\ pc' = "raised"
               /\ err' = r.err
               /\ UNCHANGED <<all_p, i>>
    /\ applied' = Append(applied, i + 1)
    /\ UNCHANGED <<src, n, stubbed, si, p_in, lattice, lib, dict>>
    /\ UNCHANGED mapVars

\* the same passing over the element, the particle carried on unchanged
TrackSkipUnknown ==
    /\ pc = "track" /\ i < Len(lattice)
    /\ lattice[i + 1].kind \notin DOMAIN dict
    /\ all_p' = [all_p EXCEPT ![i + 2] = all_p[i + 1]]
    /\ i' = i + 1
    /\ UNCHANGED <<src, n, stubbed, si, p_in, lattice, lib, dict, applied, pc, err>>
    /\ UNCHANGED mapVars

\* the pass finds no map under the element's kind
TrackKeyError ==
    /\ pc = "track" /\ i < Len(lattice)
    /\ lattice[i + 1].kind \notin DOMAIN dict
    /\ pc' = "raised"
    /\ err' = "KeyError"
    /\ UNCHANGED <<src, n, stubbed, si, p_in, lattice, lib, dict, all_p, i, applied>>
    /\ UNCHANGED mapVars

\* return all_p
Return ==
    /\ pc = "track" /\ i = Len(lattice)
    /\ pc' = "returned"
    /\ UNCHANGED <<src, n, stubbed, si, p_in, lattice, lib, dict, all_p, i, applied, err>>
    /\ UNCHANGED mapVars

Next ==
    \/ StubStep
    \/ StubReturn
    \/ Resolve
    \/ ResolveFail
    \/ TrackStep
    \/ TrackKeyError
    \/ Return

Spec == Init /\ [][Next]_vars

(***************************************************************************)
(* One call of a map made against a backend with every function.           *)
(***************************************************************************)
MapInit ==
    /\ RunIdle
    /\ mp \in MapParticles
    /\ me \in MapElements
    /\ mres = NoParticle
    /\ mpc = "call"

\* the map for the element's kind is called on the particle
CallTrack ==
    /\ mpc = "call"
    /\ \E r \in { CallMap(TrackingFunctionDict[me.kind], mp, me) } :
          /\ mres' = r
          /\ mpc' = (IF r.ok THEN "returned" ELSE "raised")
    /\ UNCHANGED <<mp, me>>
    /\ UNCHANGED runVars

MapNext == CallTrack

SpecMap == MapInit /\ [][MapNext]_vars

\* a run of the driver, or one call of a map
SpecAll == (Init \/ MapInit) /\ [][Next \/ MapNext]_vars

(***************************************************************************)
(* Properties.                                                             *)
(***************************************************************************)
\* the backend defines every function the maps bind
LibOk == QuadrupoleNeeds \subseteq lib

\* the element's kind is one the driver registers a map for
Known(e) == e.kind \in {"Drift", "Quadrupole"}

\* the drift map for a Drift, the quadrupole map for a Quadrupole
MapOf(p, e) ==
    IF e.kind = "Drift" THEN track_a_drift(p, e) ELSE track_a_quadrupole(p, e)

\* an element whose map returns: a Drift, or a Quadrupole whose L and K1 are
\* numbers and whose NUM_STEPS is not 0
Tracks(e) ==
    \/ e.kind = "Drift"
    \/ /\ e.kind = "Quadrupole"
       /\ e.L # None /\ e.K1 # None /\ e.NUM_STEPS # 0

\* the trajectory track_a_lattice returns: k+1 entries, entry 0 the input,
\* entry j+1 the map of lattice[j]'s kind applied to entry j, each element
\* applied once and in lattice order
Trajectory ==
    pc = "returned" =>
        /\ Len(all_p) = Len(lattice) + 1
        /\ all_p[1] = p_in
        /\ applied = [j \in 1..Len(lattice) |-> j]
        /\ \A j \in 1..Len(lattice) :
              /\ Known(lattice[j])
              /\ \E r \in { MapOf(all_p[j], lattice[j]) } :
                    r.ok /\ all_p[j + 1] = r.val

\* C1 as stated: with a supported backend, every lattice whose kinds are all
\* Drift or Quadrupole is tracked to the end (the run raises nothing), and
\* the trajectory returned has k+1 entries, entry 0 the input and entry j+1
\* the map of lattice[j] applied to entry j, each element applied once, in
\* lattice order.
C1_Original ==
    /\ Trajectory
    /\ (LibOk /\ \A j \in 1..Len(lattice) : Known(lattice[j]))
          => pc # "raised"

\* C1 as amended: the same for every lattice of Drifts and of Quadrupoles
\* whose L and K1 are numbers and whose NUM_STEPS is not 0; a run that
\* returns at all returns a trajectory of this shape.
C1_Trajectory ==
    /\ Trajectory
    /\ (LibOk /\ \A j \in 1..Len(lattice) :
                    Known(lattice[j]) /\ Tracks(lattice[j]))
          => pc # "raised"

\* a Drift and then a Quadrupole tracked to the end, without subdivision
C1_Witness ==
    /\ pc = "returned" /\ n = 0 /\ Len(lattice) = 2
    /\ lattice[1].kind = "Drift" /\ lattice[2].kind = "Quadrupole"
    /\ applied = <<1, 2>>
    /\ all_p[2] # all_p[1] /\ all_p[3] # all_p[2]

\* C2: a map that returns leaves p0c and mc2 as they were in its input, and
\* every entry of the driver's trajectory carries the p0c and mc2 of entry 0.
C2_ReferenceInvariance ==
    /\ mpc = "returned" =>
          /\ mres.val.p0c = mp.p0c
          /\ mres.val.mc2 = mp.mc2
    /\ \A j \in 1..Len(all_p) :
          all_p[j] # NoParticle =>
              /\ all_p[j].p0c = p_in.p0c
              /\ all_p[j].mc2 = p_in.mc2

\* a Quadrupole and a Drift tracked: the coordinates moved, p0c and mc2 kept
C2_Witness ==
    /\ pc = "returned" /\ Len(lattice) = 2
    /\ lattice[1].kind = "Quadrupole" /\ lattice[2].kind = "Drift"
    /\ all_p[3].x # p_in.x
    /\ all_p[3].p0c = p_in.p0c /\ all_p[3].mc2 = p_in.mc2
    /\ p_in.p0c # p_in.mc2

\* s0 + L_1 + ... + L_j, accumulated element by element
RECURSIVE SumS(_, _, _)
SumS(s0, lat, j) ==
    IF j = 0 THEN s0 ELSE Add[SumS(s0, lat, j - 1), lat[j].L]

\* C3: the s a map returns is its input's s plus the element's L, added once
\* whatever NUM_STEPS is; so entry j of a trajectory has the s of entry 0
\* plus the L of the first j elements, accumulated in lattice order.
C3_PathLength ==
    /\ mpc = "returned" => mres.val.s = Add[mp.s, me.L]
    /\ \A j \in 1..Len(lattice) :
          (j < Len(all_p) /\ all_p[j + 1] # NoParticle) =>
              /\ all_p[j + 1].s = Add[all_p[j].s, lattice[j].L]
              /\ all_p[j + 1].s = SumS(p_in.s, lattice, j)

\* a Quadrupole of two slices tracked after another element
C3_Witness ==
    /\ pc = "returned" /\ Len(lattice) = 2
    /\ lattice[2].kind = "Quadrupole" /\ lattice[2].NUM_STEPS = 2
    /\ all_p[3].s = Add[Add[p_in.s, lattice[1].L], lattice[2].L]
    /\ all_p[3].s # all_p[2].s

\* the positions of the lattice whose kind has no registered map
Unknowns == { j \in 1..Len(lattice) : ~Known(lattice[j]) }
FirstUnknown == CHOOSE j \in Unknowns : \A q \in Unknowns : j <= q

\* C4: a lattice holding an element of a kind with no registered map is
\* never tracked to a returned trajectory; no element at or after the first
\* such element is ever handed to a map and no entry past it is filled; at
\* that element the only step is the error, a KeyError raised there.
C4_UnknownKind ==
    Unknowns # {} =>
        /\ pc # "returned"
        /\ i < FirstUnknown
        /\ \A q \in 1..Len(applied) : applied[q] < FirstUnknown
        /\ \A j \in 1..Len(all_p) : j > FirstUnknown => all_p[j] = NoParticle
        /\ (pc = "raised" /\ err = "KeyError") => i + 1 = FirstUnknown
        /\ (pc = "track" /\ i + 1 = FirstUnknown) =>
              /\ ENABLED TrackKeyError
              /\ ~ENABLED TrackStep
              /\ ~ENABLED Return

\* the error raised at an unknown element that has elements before and after
C4_Witness ==
    /\ Unknowns # {}
    /\ pc = "raised" /\ err = "KeyError"
    /\ FirstUnknown > 1 /\ FirstUnknown < Len(lattice)
    /\ Len(applied) = FirstUnknown - 1
    /\ all_p[FirstUnknown] # NoParticle

\* C5 as stated: a call of the quadrupole map on a Quadrupole whose
\* NUM_STEPS is below 1 raises and returns no Particle.
C5_Original ==
    (mpc # "call" /\ me.kind = "Quadrupole" /\ me.NUM_STEPS < 1) =>
        mpc = "raised"

\* C6: the maps are made, and the backend's functions bound, before any
\* element is tracked; with a backend lacking one of sqrt, sin, cos, sinh,
\* cosh, sinc, abs the run ends there in an AttributeError whatever the
\* lattice, the empty one included: no map is made, no element tracked, no
\* trajectory allocated or returned.
C6_Backend ==
    /\ ~LibOk =>
          /\ pc \in {"stub", "resolve", "raised"}
          /\ pc = "raised" => err = "AttributeError"
          /\ dict = NoDict /\ all_p = <<>> /\ applied = <<>> /\ i = 0
    /\ (pc = "resolve" /\ ~LibOk) => (ENABLED ResolveFail /\ ~ENABLED Resolve)
    /\ pc \in {"track", "returned"} => (LibOk /\ dict = TrackingFunctionDict)
    /\ applied # <<>> => dict = TrackingFunctionDict

\* the run on the empty lattice ended by a backend without sinc and abs
C6_Witness ==
    /\ pc = "raised" /\ err = "AttributeError"
    /\ n = 0 /\ lattice = <<>>
    /\ "sqrt" \in lib /\ "sinc" \notin lib
    /\ dict = NoDict /\ all_p = <<>>

\* the pieces stub_lattice has appended so far
Pieces ==
    /\ Len(stubbed) = n * si
    /\ \A idx \in 0..(si - 1) : \A q \in 0..(n - 1) :
          \E e \in { src[idx + 1] } : \E piece \in { stubbed[idx * n + q + 1] } :
              /\ piece.kind = e.kind
              /\ DOMAIN piece = DOMAIN e
              /\ piece.L = Div[e.L, Int2Num(n)]
              /\ \A f \in DOMAIN e \ {"L"} : piece[f] = e[f]
    /\ (n > 0 /\ pc # "stub") => (si = Len(src) /\ lattice = stubbed)

\* C7: for n >= 1 the pieces of element idx of the lattice are the n
\* entries idx*n .. idx*n+n-1 of the result, each of the element's kind, with
\* L = e.L / n and every other attribute that of the element; the result has
\* n * len(lattice) entries; the lattice given is left as it was.
C7_Subdivision == [](Pieces) /\ [][src' = src]_vars

\* two elements cut in three pieces each
C7_Witness ==
    /\ n = 3 /\ si = 2 /\ Len(stubbed) = 6
    /\ stubbed[4].kind = "Quadrupole" /\ stubbed[1].kind = "Drift"
    /\ stubbed[4].L # src[2].L
    /\ stubbed[4].K1 = src[2].K1

\* s with d added m times, one after the other
RECURSIVE AddTimes(_, _, _)
AddTimes(s, d, m) == IF m = 0 THEN s ELSE AddTimes(Add[s, d], d, m - 1)

\* e.L / n and every partial sum s + q (e.L / n) are numbers as they stand
ExactPieces(s, L, m) ==
    /\ s.k = "fin" /\ L.k = "fin"
    /\ (L.v \div m) * m = L.v
    /\ Div[L, Int2Num(m)] = Fin(L.v \div m)
    /\ \A q \in 1..m : Add[s, Fin(q * (L.v \div m))] = Fin(s.v + q * (L.v \div m))

\* C8 as stated: tracking through stub_element(e, n) ends with s equal to the
\* initial s plus e.L.
C8_Original ==
    (pc = "returned" /\ n >= 1 /\ Len(src) = 1) =>
        all_p[n + 1].s = Add[p_in.s, src[1].L]

\* C8 as amended: it ends with the initial s to which the rounded e.L / n has
\* been added n times in turn; that is the initial s plus e.L when n = 1 and
\* whenever e.L / n and the partial sums are exact.
C8_Subdivided ==
    (pc = "returned" /\ n >= 1 /\ Len(src) = 1) =>
        /\ all_p[n + 1].s = AddTimes(p_in.s, Div[src[1].L, Int2Num(n)], n)
        /\ (n = 1 \/ ExactPieces(p_in.s, src[1].L, n)) =>
              all_p[n + 1].s = Add[p_in.s, src[1].L]

\* a Quadrupole cut in two and tracked, its halves exact
C8_Witness ==
    /\ pc = "returned" /\ n = 2 /\ Len(src) = 1
    /\ src[1].kind = "Quadrupole"
    /\ ExactPieces(p_in.s, src[1].L, n)
    /\ all_p[3].s = Add[p_in.s, src[1].L]
    /\ all_p[3].s # all_p[2].s

\* the particle the drift map's text documents as the caller's duty: total
\* momentum not zero, transverse momentum below it, a finite energy not zero
Physical(p) ==
    \E P \in { Add[Unit, p.pz] } :
        /\ P # Zero
        /\ Lt[Add[Sq[Div[p.px, P]], Sq[Div[p.py, P]]], Unit]
        /\ \E E2 \in { Add[Sq[Mul[p.p0c, P]], Sq[p.mc2]] } :
              E2.k = "fin" /\ E2 # Zero

Coordinates == {"x", "px", "y", "py", "z", "pz", "s"}

\* C9 as stated: the drift map with L = 0 returns x, px, y, py, z, pz and s
\* equal to the input's, for every input Particle.
C9_Original ==
    (mpc = "returned" /\ me.kind = "Drift" /\ me.L = Zero) =>
        \A f \in Coordinates : mres.val[f] = mp[f]

\* C9 as amended: it does for every input Particle whose total momentum
\* 1 + pz is not zero, whose transverse momentum is below the total and
\* whose energy (p0c (1 + pz))^2 + mc2^2 is finite and not zero.
C9_DriftIdentity ==
    (mpc = "returned" /\ me.kind = "Drift" /\ me.L = Zero /\ Physical(mp)) =>
        \A f \in Coordinates : mres.val[f] = mp[f]

\* a particle with momentum in both planes and off the design momentum
C9_Witness ==
    /\ mpc = "returned" /\ me = Drift(Zero) /\ Physical(mp)
    /\ mp.px # Zero /\ mp.py # Zero /\ mp.pz # Zero /\ mp.s # Zero
    /\ mres.val = mp

\* the element is Quadrupole(L=...) with nothing else given
OnlyL(e) == e.kind = "Quadrupole" /\ e.L # None /\ e = Quadrupole([L |-> e.L])

\* C10 as stated: a Quadrupole built from its length alone has K1 = 0,
\* NUM_STEPS = 1, X_OFFSET = Y_OFFSET = TILT = 0, and the quadrupole map
\* tracks it.
C10_Original ==
    OnlyL(me) =>
        /\ me.K1 = Zero /\ me.NUM_STEPS = 1
        /\ me.X_OFFSET = Zero /\ me.Y_OFFSET = Zero /\ me.TILT = Zero
        /\ mpc # "call" => mpc = "returned"

\* C10 as amended: it has K1 = None, NUM_STEPS = 1 and X_OFFSET = Y_OFFSET =
\* TILT = 0, and the quadrupole map raises TypeError on it; built from L and
\* K1, the other four attributes at their defaults, it is tracked.
C10_Defaults ==
    /\ OnlyL(me) =>
          /\ me.K1 = None /\ me.NUM_STEPS = 1
          /\ me.X_OFFSET = Zero /\ me.Y_OFFSET = Zero /\ me.TILT = Zero
          /\ mpc # "call" => (mpc = "raised" /\ mres.err = "TypeError")
    /\ (/\ me.kind = "Quadrupole" /\ me.L # None /\ me.K1 # None
        /\ me = Quadrupole([L |-> me.L, K1 |-> me.K1])) =>
          /\ me.NUM_STEPS = 1
          /\ me.X_OFFSET = Zero /\ me.Y_OFFSET = Zero /\ me.TILT = Zero
          /\ mpc # "call" => mpc = "returned"

\* the call on Quadrupole(L=1.0) has raised
C10_Witness ==
    /\ me = Quadrupole([L |-> Unit])
    /\ mpc = "raised" /\ mres.err = "TypeError"
    /\ me.K1 = None

=============================================================================
